---- MODULE Spec2Model ----
(***************************************************************************)
(* Model of the databroom / janitor_bot cleaning pipeline: the operation   *)
(* library (core/cleaning_ops.py), the recorder (core/command.py), the     *)
(* pipeline (core/pipeline.py) and its facade (core/janitor.py).           *)
(*                                                                         *)
(* A string is a sequence of characters over a small alphabet.  A cell is  *)
(* a record [kind, s]: null, a number, or a string.  A table is stored     *)
(* column-major: columns[i] is the name of column i, data[i] its cells.    *)
(* pandas DataFrames are mutable objects, so tables live in a heap and     *)
(* the pipeline holds references to them.                                  *)
(***************************************************************************)
EXTENDS Integers, Sequences, FiniteSets, TLC

\* ------------------------------------------------------------------ bounds
MaxHist == 2        \* longest history the model builds
MaxRun  == 2        \* longest record sequence handed to run_pipeline
MaxLog  == 2        \* longest log a CleaningCommand appends to
MaxSave == 2        \* longest history handed to save_pipeline
MaxGen  == 2        \* longest history handed to load_history
MaxRows == 2        \* most rows of a table the generated R stage is run on

\* ----------------------------------------------------------------- strings
\* "sp" is the space, "E^"/"e^" an accented E/e (decomposes under NFKD),
\* "O/" a letter with no decomposition (dropped by the ASCII re-encoding).
Char == {"A", "a", "E", "e", "E^", "e^", "O/", "o/", "sp", "_"}

LowerChar(c) ==
    CASE c = "A"  -> "a"
      [] c = "E"  -> "e"
      [] c = "E^" -> "e^"
      [] c = "O/" -> "o/"
      [] OTHER    -> c

ReplaceSpaceChar(c) == IF c = "sp" THEN "_" ELSE c

\* unicodedata.normalize('NFKD', c).encode('ASCII', 'ignore')
AsciiChar(c) ==
    CASE c = "E^" -> <<"E">>
      [] c = "e^" -> <<"e">>
      [] c = "O/" -> <<>>
      [] c = "o/" -> <<>>
      [] OTHER    -> <<c>>

RECURSIVE remove_accents_str(_)
remove_accents_str(s) ==
    IF s = <<>> THEN <<>> ELSE AsciiChar(Head(s)) \o remove_accents_str(Tail(s))

LowerOnly(s) == [i \in 1..Len(s) |-> LowerChar(s[i])]

\* s.lower().replace(' ', '_')
LowerUnderscore(s) == [i \in 1..Len(s) |-> ReplaceSpaceChar(LowerChar(s[i]))]

\* ------------------------------------------------------------------- cells
Null   == [kind |-> "null", s |-> <<>>]
Num    == [kind |-> "num",  s |-> <<>>]
Str(s) == [kind |-> "str",  s |-> s]

IsNull(c) == c.kind = "null"

remove_accents(c) == IF c.kind = "str" THEN Str(remove_accents_str(c.s)) ELSE c
standardize_text(c) == IF c.kind = "str" THEN Str(LowerUnderscore(c.s)) ELSE c

\* ------------------------------------------------------------------ tables
NoTable == [nrows |-> 0, columns |-> <<>>, data |-> <<>>]

NCols(t) == Len(t.columns)
Shape(t) == <<t.nrows, NCols(t)>>

RECURSIVE PickFrom(_, _, _)
PickFrom(s, K, i) ==
    IF i > Len(s) THEN <<>>
    ELSE (IF i \in K THEN <<s[i]>> ELSE <<>>) \o PickFrom(s, K, i + 1)

NonNullCount(col) == Cardinality({r \in 1..Len(col) : ~IsNull(col[r])})

\* --------------------------------------------- operation library (pandas)
\* A threshold is a percentage (0.9 is 90); the product threshold * len(df)
\* is not negative, so int() truncates to the floor.
DefaultThreshold == 90

remove_empty_cols_rounding(t, threshold) ==
    LET thresh == (threshold * t.nrows + 50) \div 100
        keep   == {i \in 1..NCols(t) : NonNullCount(t.data[i]) >= thresh}
    IN  [nrows   |-> t.nrows,
         columns |-> PickFrom(t.columns, keep, 1),
         data    |-> PickFrom(t.data, keep, 1)]

remove_empty_cols(t, threshold) ==
    LET thresh == (threshold * t.nrows) \div 100
        keep   == {i \in 1..NCols(t) : NonNullCount(t.data[i]) >= thresh}
    IN  [nrows   |-> t.nrows,
         columns |-> PickFrom(t.columns, keep, 1),
         data    |-> PickFrom(t.data, keep, 1)]

remove_empty_rows_any(t) ==
    LET keep == {r \in 1..t.nrows : \A i \in 1..NCols(t) : ~IsNull(t.data[i][r])}
    IN  [nrows   |-> Cardinality(keep),
         columns |-> t.columns,
         data    |-> [i \in 1..NCols(t) |-> PickFrom(t.data[i], keep, 1)]]

\* dropna(axis=0, how='all'): a row stays iff some cell of it is not null
remove_empty_rows(t) ==
    LET keep == {r \in 1..t.nrows : \E i \in 1..NCols(t) : ~IsNull(t.data[i][r])}
    IN  [nrows   |-> Cardinality(keep),
         columns |-> t.columns,
         data    |-> [i \in 1..NCols(t) |-> PickFrom(t.data[i], keep, 1)]]

\* The two column-name operations assign df.columns on the table they are
\* given and return that same object: the value below is what the object
\* holds afterwards (InPlace tells the caller that no new object is made).
standardize_column_names_merging(t) ==
    LET names == [i \in 1..NCols(t) |-> LowerUnderscore(t.columns[i])]
        first == {i \in 1..NCols(t) : \A j \in 1..(i - 1) : names[j] # names[i]}
    IN  [nrows   |-> t.nrows,
         columns |-> PickFrom(names, first, 1),
         data    |-> PickFrom(t.data, first, 1)]

standardize_column_names(t) ==
    [t EXCEPT !.columns = [i \in 1..NCols(t) |-> LowerUnderscore(t.columns[i])]]

normalize_column_names(t) ==
    [t EXCEPT !.columns = [i \in 1..NCols(t) |-> remove_accents_str(t.columns[i])]]

\* df.applymap(remove_accents)
normalize_values(t) ==
    [t EXCEPT !.data = [i \in 1..NCols(t) |->
                           [r \in 1..t.nrows |-> remove_accents(t.data[i][r])]]]

InSeq(x, s) == \E i \in 1..Len(s) : s[i] = x
Occurrences(x, s) == Cardinality({i \in 1..Len(s) : s[i] = x})

\* columns is [none, list]: none stands for the default None.  With a list,
\* result_df[col] is a single column only when the name occurs once; for a
\* repeated name it is a frame, whose apply() hands standardize_text whole
\* columns, which it returns unchanged.
ColumnsNone    == [none |-> TRUE,  list |-> <<>>]
ColumnsList(l) == [none |-> FALSE, list |-> l]

standardize_values_everywhere(t, columns) ==
    LET cleaned_df == normalize_values(t)
    IN  [cleaned_df EXCEPT !.data =
            [i \in 1..NCols(t) |->
                [r \in 1..t.nrows |-> standardize_text(cleaned_df.data[i][r])]]]

standardize_values(t, columns) ==
    LET cleaned_df == normalize_values(t)
    IN  IF columns.none
        THEN [cleaned_df EXCEPT !.data =
                [i \in 1..NCols(t) |->
                    [r \in 1..t.nrows |-> standardize_text(cleaned_df.data[i][r])]]]
        ELSE [cleaned_df EXCEPT !.data =
                [i \in 1..NCols(t) |->
                    IF InSeq(t.columns[i], columns.list)
                       /\ Occurrences(t.columns[i], t.columns) = 1
                    THEN [r \in 1..t.nrows |-> standardize_text(cleaned_df.data[i][r])]
                    ELSE cleaned_df.data[i]]]

\* inspect.getmembers(cleaning_ops, inspect.isfunction)
avaiable_functions ==
    {"remove_empty_cols", "remove_empty_rows", "standardize_column_names",
     "normalize_column_names", "normalize_values", "standardize_values"}

InPlace(name) == name \in {"standardize_column_names", "normalize_column_names"}

\* ------------------------------------------------------- keyword arguments
\* kwargs: keys is the set of keywords passed; threshold and columns hold
\* the value of that keyword when it is in keys.
NoKw           == [keys |-> {},            threshold |-> 0, columns |-> <<>>]
KwThreshold(p) == [keys |-> {"threshold"}, threshold |-> p, columns |-> <<>>]
KwColumns(c)   == [keys |-> {"columns"},   threshold |-> 0, columns |-> c]
KwBogus        == [keys |-> {"bogus"},     threshold |-> 0, columns |-> <<>>]

Signature(name) ==
    CASE name = "remove_empty_cols"  -> {"threshold"}
      [] name = "standardize_values" -> {"columns"}
      [] OTHER                       -> {}

\* Calling func(df, **kwargs): Python raises TypeError for a keyword the
\* function does not take; otherwise the function body runs.
CallRaises(name, kw) == ~(kw.keys \subseteq Signature(name))

CallOp(name, kw, t) ==
    CASE name = "remove_empty_cols" ->
            remove_empty_cols(t, IF "threshold" \in kw.keys THEN kw.threshold
                                 ELSE DefaultThreshold)
      [] name = "remove_empty_rows"        -> remove_empty_rows(t)
      [] name = "standardize_column_names" -> standardize_column_names(t)
      [] name = "normalize_column_names"   -> normalize_column_names(t)
      [] name = "normalize_values"         -> normalize_values(t)
      [] name = "standardize_values"       ->
            standardize_values(t, IF "columns" \in kw.keys
                                  THEN ColumnsList(kw.columns) ELSE ColumnsNone)

\* ---------------------------------------------------------------- recorder
\* command.py: the log entry names the function, the keyword arguments and
\* the shape before and after.  (The timestamp is left out: nothing reads it.)
LogEntry(name, kw, before, after) ==
    [function |-> name, kwargs |-> kw,
     shape_before |-> Shape(before), shape_after |-> Shape(after)]

\* Faulty variant: the entry is appended before func is called.
wrapper_logs_first(name, log, t, kw) ==
    IF CallRaises(name, kw)
    THEN [raised |-> TRUE, results |-> t,
          log |-> Append(log, LogEntry(name, kw, t, t))]
    ELSE LET results == CallOp(name, kw, t)
         IN  [raised  |-> FALSE,
              results |-> results,
              log     |-> Append(log, LogEntry(name, kw, t, results))]

\* wrapper(df, **kwargs) around the library function `name`, logging to the
\* list `log`.  The entry is appended after func returned; when func raises,
\* the exception leaves the wrapper before the append.
wrapper(name, log, t, kw) ==
    IF CallRaises(name, kw)
    THEN [raised |-> TRUE, results |-> t, log |-> log]
    ELSE LET results == CallOp(name, kw, t)
         IN  [raised  |-> FALSE,
              results |-> results,
              log     |-> Append(log, LogEntry(name, kw, t, results))]

\* Faulty variant: the wrapper hands back its argument, not func's result.
CleaningCommand_returns_input(name, hl, t, kw) ==
    IF hl.supplied
    THEN LET r == wrapper(name, hl.val, t, kw)
         IN  [raised |-> r.raised, results |-> t,
              history_list |-> [hl EXCEPT !.val = r.log]]
    ELSE [raised |-> CallRaises(name, kw), results |-> t, history_list |-> hl]

\* CleaningCommand(function=name, history_list=hl)(df, **kwargs).  hl is
\* [supplied, val]: with history_list=None (supplied = FALSE) the block under
\* `if history_list is not None` is skipped and func's result is returned.
CleaningCommand(name, hl, t, kw) ==
    IF hl.supplied
    THEN LET r == wrapper(name, hl.val, t, kw)
         IN  [raised |-> r.raised, results |-> r.results,
              history_list |-> [hl EXCEPT !.val = r.log]]
    ELSE [raised  |-> CallRaises(name, kw),
          results |-> IF CallRaises(name, kw) THEN t ELSE CallOp(name, kw, t),
          history_list |-> hl]

\* ---------------------------------------------------------------- pipeline
\* Heap of table objects.  "in" is the caller's DataFrame, "orig" the copy
\* made at construction, "cur" the latest table an operation or a copy
\* created (the table it replaces is referenced by nothing in the pipeline).
Obj == {"in", "orig", "cur"}

VARIABLES
    heap,               \* [Obj -> table]
    df,                 \* pipeline.df: a reference
    df_original,        \* pipeline.df_original: a reference
    history_list,       \* pipeline.history_list
    history,            \* pipeline.history, the attribute reset() assigns
    current_operation,  \* pipeline.current_operation, assigned by reset()
    call,               \* the last call made by the caller and its outcome
    net_executes,       \* successful executes since the last reset, minus undone steps
    caller_list,        \* the list a caller got from get_history()
    log,                \* the history_list a CleaningCommand was built with
    files,              \* the files save_pipeline writes: path -> content
    generator           \* a CodeGenerator: its language and its history

vars == <<heap, df, df_original, history_list, history, current_operation,
          call, net_executes, caller_list, log, files, generator>>

\* The objects a specification of one component leaves alone
others == <<log, files, generator>>
pipeline == <<heap, df, df_original, history_list, history, current_operation,
              net_executes, caller_list>>

Self == [heap |-> heap, df |-> df, df_original |-> df_original,
         history_list |-> history_list, history |-> history,
         current_operation |-> current_operation]

Becomes(self) ==
    /\ heap' = self.heap
    /\ df' = self.df
    /\ df_original' = self.df_original
    /\ history_list' = self.history_list
    /\ history' = self.history
    /\ current_operation' = self.current_operation

\* An attribute that was never assigned, and one holding a list.
Unset       == [set |-> FALSE, val |-> <<>>]
Assigned(v) == [set |-> TRUE,  val |-> v]

\* Faulty variant: self.df_original = df, without the copy.
CleaningPipeline_no_copy(t) ==
    [heap |-> [o \in Obj |-> IF o = "cur" THEN NoTable ELSE t],
     df |-> "in", df_original |-> "in",
     history_list |-> <<>>, history |-> Unset, current_operation |-> "unset"]

\* CleaningPipeline.__init__(df): self.df = df; self.df_original = df.copy()
CleaningPipeline(t) ==
    [heap |-> [o \in Obj |-> IF o = "cur" THEN NoTable ELSE t],
     df |-> "in", df_original |-> "orig",
     history_list |-> <<>>, history |-> Unset, current_operation |-> "unset"]

get_current_dataframe(self) == self.heap[self.df]
get_operation_count(self) == Len(self.history_list)

\* Faulty variant: the result of the call is not assigned to self.df.
execute_operation_no_assign(self, operation, kw) ==
    IF operation \notin avaiable_functions
    THEN [raised |-> TRUE, self |-> self]
    ELSE LET r   == wrapper(operation, self.history_list, self.heap[self.df], kw)
             ref == IF InPlace(operation) THEN self.df ELSE "cur"
         IN  IF r.raised
             THEN [raised |-> TRUE, self |-> self]
             ELSE [raised |-> FALSE,
                   self   |-> [self EXCEPT !.heap = [@ EXCEPT ![ref] = r.results],
                                           !.history_list = r.log]]

\* Faulty variant: the attempt is logged before the name is checked.
execute_operation_logs_unknown(self, operation, kw) ==
    IF operation \notin avaiable_functions
    THEN [raised |-> TRUE,
          self   |-> [self EXCEPT !.history_list =
                        Append(@, LogEntry(operation, kw, self.heap[self.df],
                                           self.heap[self.df]))]]
    ELSE LET r   == wrapper(operation, self.history_list, self.heap[self.df], kw)
             ref == IF InPlace(operation) THEN self.df ELSE "cur"
         IN  IF r.raised
             THEN [raised |-> TRUE, self |-> self]
             ELSE [raised |-> FALSE,
                   self   |-> [self EXCEPT !.heap = [@ EXCEPT ![ref] = r.results],
                                           !.df = ref,
                                           !.history_list = r.log]]

\* execute_operation(operation, **kwargs)
execute_operation(self, operation, kw) ==
    IF operation \notin avaiable_functions
    THEN [raised |-> TRUE, self |-> self]
    ELSE LET r   == wrapper(operation, self.history_list, self.heap[self.df], kw)
             ref == IF InPlace(operation) THEN self.df ELSE "cur"
         IN  IF r.raised
             THEN [raised |-> TRUE, self |-> self]
             ELSE [raised |-> FALSE,
                   self   |-> [self EXCEPT !.heap = [@ EXCEPT ![ref] = r.results],
                                           !.df = ref,
                                           !.history_list = r.log]]

\* Janitor.reset(): pipeline.df = pipeline.df_original.copy();
\* pipeline.history = []; pipeline.current_operation = None
reset(self) ==
    [self EXCEPT !.heap = [@ EXCEPT !["cur"] = self.heap[self.df_original]],
                 !.df = "cur",
                 !.history = Assigned(<<>>),
                 !.current_operation = "None"]

\* A list handed to a caller is [alias, val]: alias tells that it is the
\* pipeline's own list object, val holds the entries of a separate list.
\* Faulty variant: return self.history_list, without the copy.
get_history_aliased(self) == [alias |-> TRUE, val |-> <<>>]
\* get_history(): return self.history_list.copy().
get_history(self) == [alias |-> FALSE, val |-> self.history_list]

\* What the caller sees in the list it holds
CallerView == IF caller_list.alias THEN history_list ELSE caller_list.val

\* Applying records in order to a table
RECURSIVE Replay(_, _)
Replay(records, t) ==
    IF records = <<>> THEN t
    ELSE Replay(Tail(records), CallOp(Head(records).function, Head(records).kwargs, t))

Front(s) == SubSeq(s, 1, Len(s) - 1)

\* Faulty variant: the last record is dropped and current is left as it is.
step_back_from_current(self) ==
    IF self.history_list = <<>>
    THEN [raised |-> TRUE, self |-> self]
    ELSE [raised |-> FALSE,
          self   |-> [self EXCEPT !.df = "cur",
                                  !.heap = [@ EXCEPT !["cur"] = self.heap[self.df]],
                                  !.history_list = Front(self.history_list)]]

\* Faulty variant: no check for an empty history.
step_back_unchecked(self) ==
    LET front == IF self.history_list = <<>> THEN <<>> ELSE Front(self.history_list)
    IN  [raised |-> FALSE,
         self   |-> [self EXCEPT
                       !.heap = [@ EXCEPT !["cur"] =
                                   Replay(front, self.heap[self.df_original])],
                       !.df = "cur",
                       !.history_list = front]]

\* step_back(): an error on an empty history; otherwise drop the last record
\* and replay the remaining ones on a fresh copy of the original.
step_back(self) ==
    IF self.history_list = <<>>
    THEN [raised |-> TRUE, self |-> self]
    ELSE LET front == Front(self.history_list)
         IN  [raised |-> FALSE,
              self   |-> [self EXCEPT
                            !.heap = [@ EXCEPT !["cur"] =
                                        Replay(front, self.heap[self.df_original])],
                            !.df = "cur",
                            !.history_list = front]]

can_step_back(self) == self.history_list # <<>>

\* Faulty variant: a failing record is skipped and the later ones still run.
RECURSIVE run_pipeline_continues(_, _)
run_pipeline_continues(self, records) ==
    IF records = <<>>
    THEN [raised |-> FALSE, self |-> self, applied |-> 0]
    ELSE LET r    == execute_operation(self, Head(records).function, Head(records).kwargs)
             rest == run_pipeline_continues(r.self, Tail(records))
         IN  [raised  |-> r.raised \/ rest.raised,
              self    |-> rest.self,
              applied |-> rest.applied + (IF r.raised THEN 0 ELSE 1)]

\* run_pipeline(records): execute each record in order, stop at the first
\* one that raises and let the error through.  applied counts the executes
\* that succeeded.
RECURSIVE run_pipeline(_, _)
run_pipeline(self, records) ==
    IF records = <<>>
    THEN [raised |-> FALSE, self |-> self, applied |-> 0]
    ELSE LET r == execute_operation(self, Head(records).function, Head(records).kwargs)
         IN  IF r.raised
             THEN [raised |-> TRUE, self |-> self, applied |-> 0]
             ELSE LET rest == run_pipeline(r.self, Tail(records))
                  IN  [rest EXCEPT !.applied = @ + 1]

\* ------------------------------------------------------------------ inputs
\* Tables the pipeline is constructed from: a table is given as a sequence
\* of <<column name, cells>>.
Table(r, cols) ==
    [nrows   |-> r,
     columns |-> [i \in 1..Len(cols) |-> cols[i][1]],
     data    |-> [i \in 1..Len(cols) |-> cols[i][2]]]

Accented == Str(<<"E^", "sp">>)
Upper    == Str(<<"A">>)

InputTables ==
    { \* an empty column and an empty row, names with accent, case and space
      Table(2, << <<<<"E^", "sp">>, <<Accented, Null>>>>,
                  <<<<"A">>,        <<Null, Null>>>> >>),
      \* fully populated, mixed cell types
      Table(2, << <<<<"a">>,        <<Num, Upper>>>>,
                  <<<<"e^", "sp">>, <<Accented, Num>>>> >>),
      \* two names that standardize to the same name; a half-empty column
      Table(2, << <<<<"A", "sp">>,  <<Num, Null>>>>,
                  <<<<"a", "_">>,   <<Upper, Accented>>>> >>),
      \* a single row with an empty column
      Table(1, << <<<<"O/", "a">>,  <<Accented>>>>,
                  <<<<"E">>,        <<Null>>>> >>),
      \* a single column
      Table(2, << <<<<"E^">>,       <<Null, Upper>>>> >>),
      \* no rows
      Table(0, << <<<<"A", "sp">>,  <<>>>> >>) }

Thresholds == {100}

LibraryCalls ==
    {<<"remove_empty_cols", NoKw>>, <<"remove_empty_rows", NoKw>>,
     <<"standardize_column_names", NoKw>>, <<"normalize_column_names", NoKw>>,
     <<"normalize_values", NoKw>>, <<"standardize_values", NoKw>>}
    \cup {<<"remove_empty_cols", KwThreshold(p)>> : p \in Thresholds}
    \cup {<<"standardize_values", KwColumns(<<n>>)>> : n \in {<<"a">>}}

\* A keyword the function does not take, and a name that is not registered
FailingCalls == {<<"remove_empty_rows", KwBogus>>, <<"invalid_operation", NoKw>>}

Record(c) == [function |-> c[1], kwargs |-> c[2]]

RunRecords ==
    {Record(c) : c \in {<<"remove_empty_rows", NoKw>>,
                        <<"standardize_column_names", NoKw>>,
                        <<"invalid_operation", NoKw>>,
                        <<"normalize_values", KwBogus>>}}

RunInputs == UNION {[1..n -> RunRecords] : n \in 1..MaxRun}

NoList == [held |-> FALSE, alias |-> FALSE, val |-> <<>>]

\* No CleaningCommand, no file and no CodeGenerator exist
NoLog       == [supplied |-> FALSE, val |-> <<>>]
Paths       == {"pipeline.json", "pipeline.txt"}
NoFile      == [exists |-> FALSE, written |-> FALSE, doc |-> <<>>]
NoFiles     == [p \in Paths |-> NoFile]
NoGenerator == [language |-> "none", history |-> Unset]

\* No CleaningPipeline exists
NoPipeline ==
    /\ heap = [o \in Obj |-> NoTable]
    /\ df = "in"
    /\ df_original = "orig"
    /\ history_list = <<>>
    /\ history = Unset
    /\ current_operation = "unset"
    /\ net_executes = 0
    /\ caller_list = NoList

Call(op, name, kw, records, raised, ret) ==
    [op |-> op, name |-> name, kw |-> kw, records |-> records,
     raised |-> raised, ret |-> ret]

\* ----------------------------------------------------------------- actions
Init ==
    \E t \in InputTables :
        LET self == CleaningPipeline(t)
        IN  /\ heap = self.heap
            /\ df = self.df
            /\ df_original = self.df_original
            /\ history_list = self.history_list
            /\ history = self.history
            /\ current_operation = self.current_operation
            /\ call = Call("__init__", "", NoKw, <<>>, FALSE, "none")
            /\ net_executes = 0
            /\ caller_list = NoList
            /\ log = NoLog
            /\ files = NoFiles
            /\ generator = NoGenerator

ExecuteOf(calls) ==
    \E c \in calls :
        LET r == execute_operation(Self, c[1], c[2])
        IN  /\ Len(history_list) < MaxHist
            /\ Becomes(r.self)
            /\ call' = Call("execute_operation", c[1], c[2], <<>>, r.raised,
                            IF r.raised THEN "none" ELSE r.self.df)
            /\ net_executes' = IF r.raised THEN net_executes ELSE net_executes + 1
            /\ UNCHANGED caller_list
            /\ UNCHANGED others

Execute == ExecuteOf(LibraryCalls \cup FailingCalls)

Reset ==
    /\ Becomes(reset(Self))
    /\ call' = Call("reset", "", NoKw, <<>>, FALSE, "none")
    /\ net_executes' = 0
    /\ UNCHANGED caller_list
    /\ UNCHANGED others

StepBack ==
    LET r == step_back(Self)
    IN  /\ Becomes(r.self)
        /\ call' = Call("step_back", "", NoKw, <<>>, r.raised, "none")
        /\ net_executes' = IF r.raised THEN net_executes ELSE net_executes - 1
        /\ UNCHANGED caller_list
        /\ UNCHANGED others

RunPipeline ==
    \E records \in RunInputs :
        LET r == run_pipeline(Self, [i \in 1..Len(records) |-> records[i]])
        IN  /\ Len(history_list) + Len(records) <= MaxHist
            /\ Becomes(r.self)
            /\ call' = Call("run_pipeline", "", NoKw,
                            [i \in 1..Len(records) |-> records[i]], r.raised, "none")
            /\ net_executes' = net_executes + r.applied
            /\ UNCHANGED caller_list
            /\ UNCHANGED others

Next == Execute \/ Reset \/ StepBack \/ RunPipeline

Spec == Init /\ [][Next]_vars

\* get_history() called by a caller that keeps the returned list
GetHistory ==
    LET l == get_history(Self)
    IN  /\ caller_list' = [held |-> TRUE, alias |-> l.alias, val |-> l.val]
        /\ call' = Call("get_history", "", NoKw, <<>>, FALSE, "none")
        /\ UNCHANGED <<heap, df, df_original, history_list, history,
                       current_operation, net_executes>>
        /\ UNCHANGED others

\* The caller changes the list it holds: history1.append("modified"),
\* history1.pop(), history1[0] = ...
ModifiedEntry ==
    [function |-> "modified", kwargs |-> NoKw,
     shape_before |-> <<0, 0>>, shape_after |-> <<0, 0>>]

Mutations(l) ==
    {Append(l, ModifiedEntry)}
    \cup (IF l = <<>> THEN {} ELSE {Front(l), [l EXCEPT ![1] = ModifiedEntry]})

CallerMutate ==
    /\ caller_list.held
    /\ Len(CallerView) <= MaxHist
    /\ \E l \in Mutations(CallerView) :
          IF caller_list.alias
          THEN history_list' = l /\ UNCHANGED caller_list
          ELSE caller_list' = [caller_list EXCEPT !.val = l] /\ UNCHANGED history_list
    /\ call' = Call("caller_mutation", "", NoKw, <<>>, FALSE, "none")
    /\ UNCHANGED <<heap, df, df_original, history, current_operation, net_executes>>
    /\ UNCHANGED others

CopyCalls ==
    {<<"remove_empty_cols", KwThreshold(100)>>, <<"standardize_column_names", NoKw>>,
     <<"invalid_operation", NoKw>>}

NextCopy == ExecuteOf(CopyCalls) \/ StepBack \/ GetHistory \/ CallerMutate

SpecCopy == Init /\ [][NextCopy]_vars

\* ------------------------------------------------------------------ facade
\* The operation methods of Janitor.  Each passes its own name to
\* pipeline.execute_operation; remove_empty_cols passes threshold=threshold.
JanitorMethods ==
    {"remove_empty_cols", "remove_empty_rows", "standarize_column_names",
     "normalize_column_names", "normalize_values", "standarize_values"}

JanitorKw(method, threshold) ==
    IF method = "remove_empty_cols" THEN KwThreshold(threshold) ELSE NoKw

\* Janitor.<method>(): self.pipeline.execute_operation('<method>'); return self.
\* An exception of execute_operation leaves the method before the return.
Janitor_method(self, method, threshold) ==
    LET r == execute_operation(self, method, JanitorKw(method, threshold))
    IN  [raised |-> r.raised, self |-> r.self,
         ret |-> IF r.raised THEN "none" ELSE "self"]

\* Janitor.get_df()
get_df(self) == get_current_dataframe(self)

JanitorThresholds == {DefaultThreshold, 100}

JanitorCall ==
    \E method \in JanitorMethods, threshold \in JanitorThresholds :
        LET r == Janitor_method(Self, method, threshold)
        IN  /\ Len(history_list) < MaxHist
            /\ Becomes(r.self)
            /\ call' = Call("Janitor", method, JanitorKw(method, threshold),
                            <<>>, r.raised, r.ret)
            /\ net_executes' = IF r.raised THEN net_executes ELSE net_executes + 1
            /\ UNCHANGED caller_list
            /\ UNCHANGED others

NextFacade == JanitorCall

SpecFacade == Init /\ [][NextFacade]_vars

\* -------------------------------------------------------------- serializer
\* Python values: [kind, num, str, items, keys].  num is the value of a
\* number (a threshold in percent), str the characters of a string, items
\* the elements of a list or tuple or the values of a dict, keys the keys
\* of a dict.
PyValue(kind, num, str, items, keys) ==
    [kind |-> kind, num |-> num, str |-> str, items |-> items, keys |-> keys]
PyFloat(n)    == PyValue("float", n, "", <<>>, <<>>)
NpFloat(n)    == PyValue("np.float64", n, "", <<>>, <<>>)
PyStr(s)      == PyValue("str", 0, s, <<>>, <<>>)
PyList(s)     == PyValue("list", 0, "", s, <<>>)
PyTuple(s)    == PyValue("tuple", 0, "", s, <<>>)
PyDict(ks, s) == PyValue("dict", 0, "", s, ks)

\* normalize_record.convert(v)
RECURSIVE convert(_)
convert(v) ==
    IF v.kind = "np.float64" THEN PyFloat(v.num)
    ELSE IF v.kind = "dict"
         THEN PyDict(v.keys, [i \in 1..Len(v.items) |-> convert(v.items[i])])
    ELSE IF v.kind \in {"list", "tuple"}
         THEN PyList([i \in 1..Len(v.items) |-> convert(v.items[i])])
    ELSE v

\* normalize_record(rec) for rec = {"function": .., "args": .., "kwargs": ..}
normalize_record(rec) ==
    [function |-> rec.function, args |-> convert(rec.args),
     kwargs |-> convert(rec.kwargs)]

\* json.dump: a JSON value [kind, num, items, keys] for a Python value.
\* Lists and tuples are written as arrays, floats as numbers.
RECURSIVE json_dump_value(_)
json_dump_value(v) ==
    IF v.kind \in {"float", "np.float64"}
    THEN [kind |-> "number", num |-> v.num, str |-> "", items |-> <<>>, keys |-> <<>>]
    ELSE IF v.kind = "str"
    THEN [kind |-> "string", num |-> 0, str |-> v.str, items |-> <<>>, keys |-> <<>>]
    ELSE [kind  |-> IF v.kind = "dict" THEN "object" ELSE "array",
          num   |-> 0,
          str   |-> "",
          items |-> [i \in 1..Len(v.items) |-> json_dump_value(v.items[i])],
          keys  |-> v.keys]

json_dump(h) ==
    [i \in 1..Len(h) |-> [function |-> h[i].function,
                          args     |-> json_dump_value(h[i].args),
                          kwargs   |-> json_dump_value(h[i].kwargs)]]

\* json.load: arrays are read as lists, objects as dicts, numbers as floats.
RECURSIVE json_load_value(_)
json_load_value(j) ==
    IF j.kind = "number" THEN PyFloat(j.num)
    ELSE IF j.kind = "string" THEN PyStr(j.str)
    ELSE PyValue(IF j.kind = "object" THEN "dict" ELSE "list", 0, "",
                 [i \in 1..Len(j.items) |-> json_load_value(j.items[i])], j.keys)

json_load(doc) ==
    [i \in 1..Len(doc) |-> [function |-> doc[i].function,
                            args     |-> json_load_value(doc[i].args),
                            kwargs   |-> json_load_value(doc[i].kwargs)]]

\* What a call hands back: None, True, a list, or an exception
Returned(kind, val) == [kind |-> kind, val |-> val]

endswith_json(path) == path = "pipeline.json"

\* save_pipeline(history, path): open(path, 'w') creates the file or empties
\* it, then the extension is checked inside the with block.
save_pipeline(fs, h, path) ==
    LET opened == [fs EXCEPT ![path] = [exists |-> TRUE, written |-> FALSE,
                                        doc |-> <<>>]]
    IN  IF endswith_json(path)
        THEN [raised |-> FALSE, ret |-> Returned("True", <<>>),
              files  |-> [opened EXCEPT ![path].written = TRUE,
                                        ![path].doc = json_dump(
                                            [i \in 1..Len(h) |-> normalize_record(h[i])])]]
        ELSE [raised |-> TRUE, ret |-> Returned("raise", <<>>), files |-> opened]

\* load_pipeline(history_tracker=None): return
load_pipeline(fs) == [raised |-> FALSE, ret |-> Returned("None", <<>>)]

\* tabs.py: pipeline_data = json.load(pipeline_file) on an uploaded file;
\* a file holding no JSON document raises JSONDecodeError.
upload_pipeline(fs, path) ==
    IF fs[path].written
    THEN [raised |-> FALSE, ret |-> Returned("list", json_load(fs[path].doc))]
    ELSE [raised |-> TRUE, ret |-> Returned("raise", <<>>)]

\* Histories handed to save_pipeline: records of JSON-representable values
\* (lists, dicts, floats), as in the example of pipeline_io.py.
SaveRecords ==
    {[function |-> "remove_empty_cols", args |-> PyList(<<>>),
      kwargs |-> PyDict(<<"threshold">>, <<PyFloat(DefaultThreshold)>>)],
     [function |-> "remove_empty_rows", args |-> PyList(<<>>),
      kwargs |-> PyDict(<<>>, <<>>)],
     [function |-> "standardize_values", args |-> PyList(<<>>),
      kwargs |-> PyDict(<<"columns">>, <<PyList(<<PyStr("a")>>)>>)]}

SaveHistories == UNION {[1..n -> SaveRecords] : n \in 0..MaxSave}

\* A file that was at the path before the call
OldFile == [exists |-> TRUE, written |-> TRUE,
            doc |-> json_dump(<<[function |-> "normalize_values",
                                 args |-> PyList(<<>>), kwargs |-> PyDict(<<>>, <<>>)]>>)]

InitSerializer ==
    /\ NoPipeline
    /\ log = NoLog
    /\ files \in [Paths -> {NoFile, OldFile}]
    /\ generator = NoGenerator
    /\ call = Call("none", "", NoKw, <<>>, FALSE, Returned("None", <<>>))

SavePipeline ==
    \E h \in SaveHistories, path \in Paths :
        LET r == save_pipeline(files, [i \in 1..Len(h) |-> h[i]], path)
        IN  /\ files' = r.files
            /\ call' = Call("save_pipeline", path, NoKw,
                            [i \in 1..Len(h) |-> h[i]], r.raised, r.ret)
            /\ UNCHANGED <<pipeline, log, generator>>

LoadPipeline ==
    LET r == load_pipeline(files)
    IN  /\ call.op = "save_pipeline"
        /\ call' = Call("load_pipeline", call.name, NoKw, call.records, r.raised, r.ret)
        /\ UNCHANGED <<pipeline, log, files, generator>>

UploadPipeline ==
    \E path \in Paths :
        LET r == upload_pipeline(files, path)
        IN  /\ files[path].exists
            /\ call.op = "save_pipeline"
            /\ call' = Call("json.load", path, NoKw, call.records, r.raised, r.ret)
            /\ UNCHANGED <<pipeline, log, files, generator>>

NextSerializer == SavePipeline \/ LoadPipeline \/ UploadPipeline

SpecSerializer == InitSerializer /\ [][NextSerializer]_vars

\* ---------------------------------------------------------- code generator
\* A history entry is text.  It is held as the sequence of its pieces: words,
\* the word `called`, the marker `Parameters: `, the text of a dict literal,
\* and the separator `. ` (a full stop followed by a space).
Piece(k, w, keys, vals) == [k |-> k, w |-> w, keys |-> keys, vals |-> vals]
Word(w)    == Piece("word", w, <<>>, <<>>)
CalledWord == Piece("called", "", <<>>, <<>>)
ParamsMark == Piece("Parameters: ", "", <<>>, <<>>)
StopSpace  == Piece(". ", "", <<>>, <<>>)
\* the text {k1: v1, ...}: keys are the key names, vals the texts of the values
DictText(keys, vals) == Piece("dict", "", keys, vals)

\* The text of a literal: a number, or a string between quotes q
NumText(n)    == [lit |-> "num", n |-> n, s |-> "", q |-> ""]
StrText(s, q) == [lit |-> "str", n |-> 0, s |-> s, q |-> q]

\* text.split(sep)[0] and text.split(sep)[1] for a separator piece
IndexOf(text, k) ==
    LET at == {i \in 1..Len(text) : text[i].k = k}
    IN  IF at = {} THEN 0 ELSE CHOOSE i \in at : \A j \in at : i <= j

BeforeFirst(text, k) ==
    IF IndexOf(text, k) = 0 THEN text ELSE SubSeq(text, 1, IndexOf(text, k) - 1)

AfterFirst(text, k) == SubSeq(text, IndexOf(text, k) + 1, Len(text))

\* load_history(history): the last word before `called`, and the text
\* between `Parameters: ` and the next `. `
history_func(snippet) ==
    LET words == SelectSeq(BeforeFirst(snippet, "called"), LAMBDA p : p.k = "word")
    IN  words[Len(words)].w

history_param(snippet) ==
    BeforeFirst(BeforeFirst(AfterFirst(snippet, "Parameters: "), "Parameters: "), ". ")

\* [-1] of an empty list of words and [1] of a split that found no marker
\* raise IndexError
SnippetRaises(snippet) ==
    \/ SelectSeq(BeforeFirst(snippet, "called"), LAMBDA p : p.k = "word") = <<>>
    \/ IndexOf(snippet, "Parameters: ") = 0

\* Faulty variant: the pairs of the entries before the bad one are stored.
load_history_partial(self, h) ==
    LET bad == {i \in 1..Len(h) : SnippetRaises(h[i])}
        n   == IF bad = {} THEN Len(h)
               ELSE (CHOOSE i \in bad : \A j \in bad : i <= j) - 1
    IN  [raised |-> bad # {},
         self   |-> [self EXCEPT !.history =
                        Assigned([i \in 1..n |-> [func   |-> history_func(h[i]),
                                                  params |-> history_param(h[i])]])]]

\* load_history(history): both lists are built before self.history is
\* assigned, so an exception leaves the attribute as it was
load_history(self, h) ==
    IF \E i \in 1..Len(h) : SnippetRaises(h[i])
    THEN [raised |-> TRUE, self |-> self]
    ELSE [raised |-> FALSE,
          self   |-> [self EXCEPT !.history =
                        Assigned([i \in 1..Len(h) |-> [func   |-> history_func(h[i]),
                                                       params |-> history_param(h[i])]])]]

\* ast.literal_eval on the text of a literal, and repr of the value
literal_eval_value(text) ==
    IF text.lit = "num" THEN PyFloat(text.n) ELSE PyStr(text.s)

repr(v) == IF v.kind = "float" THEN NumText(v.num) ELSE StrText(v.str, "'")

\* ast.literal_eval(params_str): the text has to be one dict literal
IsDictLiteral(params_str) == Len(params_str) = 1 /\ params_str[1].k = "dict"

literal_eval(params_str) ==
    PyDict(params_str[1].keys,
           [j \in 1..Len(params_str[1].vals) |->
               literal_eval_value(params_str[1].vals[j])])

\* Faulty variant: only the first parameter is written.
params_formatted_first_only(params_dict) ==
    [j \in 1..(IF Len(params_dict.keys) = 0 THEN 0 ELSE 1) |->
        [key |-> params_dict.keys[j], text |-> repr(params_dict.items[j])]]

\* ', '.join(f"{k}={repr(v)}" for k, v in params_dict.items())
params_formatted(params_dict) ==
    [j \in 1..Len(params_dict.keys) |->
        [key |-> params_dict.keys[j], text |-> repr(params_dict.items[j])]]

\* A stage of generated code: [form, func, params, na_threshold].  form
\* "assign" is `broom_instance = broom_instance.func(params)`, form "call"
\* is `.func(params)`, the other forms are the R lines.
Stage(form, func, params, na) ==
    [form |-> form, func |-> func, params |-> params, na_threshold |-> na]

EmptyLine == Stage("", "", <<>>, 0)

\* Faulty variant: an operation with no R equivalent gives an empty line.
python_to_r_operation_silent(func_name, params) ==
    CASE func_name = "remove_empty_cols" ->
            LET at == {j \in 1..Len(params.keys) : params.keys[j] = "threshold"}
                threshold == IF at = {} THEN DefaultThreshold
                             ELSE params.items[CHOOSE j \in at : TRUE].num
            IN  Stage("select_if", func_name, <<>>, 100 - threshold)
      [] func_name = "remove_empty_rows"        -> Stage("filter", func_name, <<>>, 0)
      [] func_name = "standardize_column_names" -> Stage("clean_names", func_name, <<>>, 0)
      [] func_name = "normalize_column_names"   -> Stage("rename_with", func_name, <<>>, 0)
      [] func_name = "normalize_values"         -> Stage("mutate_latin", func_name, <<>>, 0)
      [] func_name = "standardize_values"       -> Stage("mutate_lower", func_name, <<>>, 0)
      [] OTHER -> EmptyLine

\* _python_to_r_operation(func_name, params)
python_to_r_operation(func_name, params) ==
    CASE func_name = "remove_empty_cols" ->
            LET at == {j \in 1..Len(params.keys) : params.keys[j] = "threshold"}
                threshold == IF at = {} THEN DefaultThreshold
                             ELSE params.items[CHOOSE j \in at : TRUE].num
            IN  Stage("select_if", func_name, <<>>, 100 - threshold)
      [] func_name = "remove_empty_rows"        -> Stage("filter", func_name, <<>>, 0)
      [] func_name = "standardize_column_names" -> Stage("clean_names", func_name, <<>>, 0)
      [] func_name = "normalize_column_names"   -> Stage("rename_with", func_name, <<>>, 0)
      [] func_name = "normalize_values"         -> Stage("mutate_latin", func_name, <<>>, 0)
      [] func_name = "standardize_values"       -> Stage("mutate_lower", func_name, <<>>, 0)
      [] OTHER -> Stage("# TODO", func_name, params_formatted(params), 0)

\* The loop of the python branch: code == "" holds before the first stage
RECURSIVE python_code(_, _)
python_code(h, code) ==
    IF h = <<>> THEN code
    ELSE python_code(Tail(h),
            Append(code, Stage(IF code = <<>> THEN "assign" ELSE "call",
                               Head(h).func,
                               params_formatted(literal_eval(Head(h).params)), 0)))

\* The loop of the R branch: `if r_line: code_lines.append(r_line)`
RECURSIVE r_code_lines(_, _)
r_code_lines(h, code_lines) ==
    IF h = <<>> THEN code_lines
    ELSE LET r_line == python_to_r_operation(Head(h).func, literal_eval(Head(h).params))
         IN  r_code_lines(Tail(h), IF r_line # EmptyLine THEN Append(code_lines, r_line)
                                   ELSE code_lines)

\* Faulty variant: only the empty dict counts as no history.
no_history_dict_only(self) == ~self.history.set

\* `not self.history or self.history == {}`
no_history(self) == ~self.history.set \/ self.history.val = <<>>

\* generate_code(): [raised, error, joiner, code]; code is the sequence of
\* stages, joiner what stands between two stages
generate_code(self) ==
    IF no_history(self)
    THEN [raised |-> TRUE, error |-> "No history available to generate code.",
          joiner |-> "", code |-> <<>>]
    ELSE IF /\ self.language \in {"python", "R"}
            /\ \E i \in 1..Len(self.history.val) :
                   ~IsDictLiteral(self.history.val[i].params)
    THEN [raised |-> TRUE, error |-> "literal_eval", joiner |-> "", code |-> <<>>]
    ELSE IF self.language = "python"
    THEN [raised |-> FALSE, error |-> "", joiner |-> "",
          code |-> python_code(self.history.val, <<>>)]
    ELSE IF self.language = "R"
    THEN [raised |-> FALSE, error |-> "", joiner |-> " %>%",
          code |-> r_code_lines(self.history.val, <<>>)]
    ELSE [raised |-> FALSE, error |-> "", joiner |-> "", code |-> <<>>]

\* History entries in the form of the test fixtures and with a timestamp
Snippet(pre, name, keys, vals) ==
    pre \o <<Word(name), CalledWord, Word("with"), ParamsMark,
             DictText(keys, vals), StopSpace, Word("Operation"), Word("completed")>>

Snippets ==
    {Snippet(<<>>, "remove_empty_cols", <<"threshold">>, <<NumText(DefaultThreshold)>>),
     Snippet(<<Word("2025-01-01"), Word("-")>>, "remove_empty_cols", <<>>, <<>>),
     Snippet(<<>>, "standardize_column_names", <<>>, <<>>),
     Snippet(<<>>, "some_operation", <<"threshold", "method">>,
             <<NumText(50), StrText("zscore", "\"")>>)}

\* An entry without the marker `Parameters: `
NoMarkerSnippet ==
    <<Word("remove_empty_rows"), CalledWord, StopSpace, Word("Operation"),
      Word("completed")>>

Histories == UNION {[1..n -> Snippets \cup {NoMarkerSnippet}] : n \in 0..MaxGen}

\* CodeGenerator(language) takes any string; only these two have a branch
Languages == {"python", "R", "julia"}

InitGenerator ==
    /\ NoPipeline
    /\ log = NoLog
    /\ files = NoFiles
    /\ generator \in {[language |-> l, history |-> Unset] : l \in Languages}
    /\ call = Call("CodeGenerator", "", NoKw, <<>>, FALSE, <<>>)

LoadHistory ==
    \E h \in Histories :
        LET r == load_history(generator, [i \in 1..Len(h) |-> h[i]])
        IN  /\ generator' = r.self
            /\ call' = Call("load_history", "", NoKw, [i \in 1..Len(h) |-> h[i]],
                            r.raised, <<>>)
            /\ UNCHANGED <<pipeline, log, files>>

GenerateCode ==
    LET r == generate_code(generator)
    IN  /\ call' = Call("generate_code", r.error, NoKw, <<>>, r.raised, r.code)
        /\ UNCHANGED <<pipeline, log, files, generator>>

\* export_code(filename): the script is generated first; the file is opened
\* and written in the branches of the two languages that have a template
export_code(self, fs, filename) ==
    LET r == generate_code(self)
    IN  IF r.raised THEN [raised |-> TRUE, error |-> r.error, fs |-> fs]
        ELSE IF self.language \in {"python", "R"}
        THEN [raised |-> FALSE, error |-> "",
              fs |-> [fs EXCEPT ![filename] =
                         [exists |-> TRUE, written |-> TRUE, doc |-> r.code]]]
        ELSE [raised |-> FALSE, error |-> "", fs |-> fs]

ExportCode ==
    \E filename \in Paths :
        LET r == export_code(generator, files, filename)
        IN  /\ files' = r.fs
            /\ call' = Call("export_code", filename, NoKw, <<>>, r.raised, <<>>)
            /\ UNCHANGED <<pipeline, log, generator>>

NextGenerator == LoadHistory \/ GenerateCode

SpecGenerator == InitGenerator /\ [][NextGenerator]_vars

\* A generator of any language after load_history, then generate and export
InitExport ==
    \E l \in Languages : \E h \in UNION {[1..n -> Snippets] : n \in 0..MaxGen} :
        /\ NoPipeline
        /\ log = NoLog
        /\ files = NoFiles
        /\ generator = load_history([language |-> l, history |-> Unset],
                                    [i \in 1..Len(h) |-> h[i]]).self
        /\ call = Call("load_history", "", NoKw, [i \in 1..Len(h) |-> h[i]], FALSE, <<>>)

NextExport == GenerateCode \/ ExportCode

SpecExport == InitExport /\ [][NextExport]_vars

\* ------------------------------------------------- generated R stage, run
\* select_if(~ mean(is.na(.)) < na_threshold): a column stays iff its
\* fraction of NA cells is below na_threshold (a percentage here).
select_if(t, na_threshold) ==
    LET keep == {i \in 1..NCols(t) :
                    (t.nrows - NonNullCount(t.data[i])) * 100 < na_threshold * t.nrows}
    IN  [nrows   |-> t.nrows,
         columns |-> PickFrom(t.columns, keep, 1),
         data    |-> PickFrom(t.data, keep, 1)]

\* The kwargs of a recorded call as the dict the generator parses
KwDict(kw) ==
    IF "threshold" \in kw.keys
    THEN PyDict(<<"threshold">>, <<PyFloat(kw.threshold)>>)
    ELSE PyDict(<<>>, <<>>)

\* Tables of one or more rows with two columns of null and non-null cells
RTables ==
    UNION {{Table(r, << <<<<"a">>, c1>>, <<<<"e">>, c2>> >>) :
               c1 \in [1..r -> {Null, Num}], c2 \in [1..r -> {Null, Num}]} :
           r \in 1..MaxRows}

RThresholds == {0, 50, DefaultThreshold, 100}

InitRStage ==
    \E t \in RTables :
        /\ NoPipeline
        /\ log = NoLog
        /\ files = NoFiles
        /\ generator = [language |-> "R", history |-> Unset]
        /\ call = Call("table", "", NoKw, <<t>>, FALSE, EmptyLine)

\* remove_empty_cols is run on the table, and the R line generated for the
\* same keyword arguments is run on it
RunRStage ==
    \E kw \in {NoKw} \cup {KwThreshold(p) : p \in RThresholds} :
        LET t     == call.records[1]
            stage == python_to_r_operation("remove_empty_cols", KwDict(kw))
        IN  /\ call.op = "table"
            /\ call' = Call("select_if", "remove_empty_cols", kw,
                            <<t, CallOp("remove_empty_cols", kw, t),
                              select_if(t, stage.na_threshold)>>,
                            FALSE, stage)
            /\ UNCHANGED <<pipeline, log, files, generator>>

NextRStage == RunRStage

SpecRStage == InitRStage /\ [][NextRStage]_vars

\* --------------------------------------------- operation library, directly
\* pd.DataFrame(): no rows and no columns
EmptyFrame == NoTable

\* df.columns.str on a frame without columns: the columns of pd.DataFrame()
\* are an Index of object dtype in one pandas and a RangeIndex in another,
\* and .str raises AttributeError on the latter.  Both outcomes are kept.
StrAccessorOutcomes(name, t) ==
    IF name = "standardize_column_names" /\ NCols(t) = 0
    THEN {"returns", "raises"} ELSE {"returns"}

LibTables == InputTables \cup RTables \cup {EmptyFrame}

LibCalls ==
    LibraryCalls \cup {<<"remove_empty_cols", KwThreshold(p)>> : p \in RThresholds}
                 \cup {<<"standardize_values", KwColumns(<<n>>)>> : n \in {<<"e^", "sp">>}}

InitLibrary ==
    \E t \in LibTables :
        /\ NoPipeline
        /\ log = [supplied |-> TRUE, val |-> <<>>]
        /\ files = NoFiles
        /\ generator = NoGenerator
        /\ call = Call("table", "", NoKw, <<t>>, FALSE, NoTable)

\* A function of the library called on a table through the wrapper the
\* pipeline puts around it (execute_operation on a pipeline of that table)
LibraryCall ==
    \E c \in LibCalls :
        \E outcome \in StrAccessorOutcomes(c[1], call.records[1]) :
            LET t == call.records[1]
                r == wrapper(c[1], log.val, t, c[2])
            IN  /\ call.op = "table"
                /\ IF outcome = "raises"
                   THEN /\ log' = log
                        /\ call' = Call("library", c[1], c[2], <<t>>, TRUE, NoTable)
                   ELSE /\ log' = [log EXCEPT !.val = r.log]
                        /\ call' = Call("library", c[1], c[2], <<t>>, r.raised, r.results)
                /\ UNCHANGED <<pipeline, files, generator>>

NextLibrary == LibraryCall

SpecLibrary == InitLibrary /\ [][NextLibrary]_vars

\* ---------------------------------------------------------------- recorder
\* A CleaningCommand built with a list or with history_list=None, and the
\* calls of the function it returns.
RecorderCalls ==
    {<<"remove_empty_cols", KwThreshold(100)>>, <<"remove_empty_rows", NoKw>>,
     <<"standardize_column_names", NoKw>>, <<"remove_empty_rows", KwBogus>>,
     <<"normalize_values", KwBogus>>}

InitRecorder ==
    /\ NoPipeline
    /\ log \in {NoLog, [supplied |-> TRUE, val |-> <<>>]}
    /\ files = NoFiles
    /\ generator = NoGenerator
    /\ call = Call("CleaningCommand", "", NoKw, <<>>, FALSE, NoTable)

WrappedCall ==
    \E c \in RecorderCalls, t \in InputTables :
        LET r == CleaningCommand(c[1], log, t, c[2])
        IN  /\ Len(log.val) < MaxLog
            /\ log' = r.history_list
            /\ call' = Call("wrapper", c[1], c[2], <<t>>, r.raised,
                            IF r.raised THEN NoTable ELSE r.results)
            /\ UNCHANGED <<pipeline, files, generator>>

NextRecorder == WrappedCall

SpecRecorder == InitRecorder /\ [][NextRecorder]_vars

\* ------------------------------------------------- recorder, then generator
\* The text of a log entry (command.py):
\*   <timestamp> - <name> called. Parameters: <args>, <kwargs>. Shape from ..
\* args is the tuple of positional arguments, which holds the DataFrame the
\* pipeline passes; its text is the repr of that DataFrame between brackets.
ArgsText == Piece("args", "DataFrame", <<>>, <<>>)

log_entry(e) ==
    <<Word("timestamp"), Word("-"), Word(e.function), CalledWord, StopSpace,
      ParamsMark, ArgsText,
      DictText(KwDict(e.kwargs).keys,
               [j \in 1..Len(KwDict(e.kwargs).items) |-> repr(KwDict(e.kwargs).items[j])]),
      StopSpace, Word("Shape"), Word("from"), Word("shape_before"), Word("to"),
      Word("shape_after")>>

InitFidelity ==
    /\ NoPipeline
    /\ log = [supplied |-> TRUE, val |-> <<>>]
    /\ files = NoFiles
    /\ generator \in {[language |-> l, history |-> Unset] : l \in {"python", "R"}}
    /\ call = Call("CleaningCommand", "", NoKw, <<>>, FALSE, NoTable)

\* generator.load_history(broom.get_history())
LoadLog ==
    LET h == [i \in 1..Len(log.val) |-> log_entry(log.val[i])]
        r == load_history(generator, h)
    IN  /\ generator' = r.self
        /\ call' = Call("load_history", "", NoKw, h, r.raised, <<>>)
        /\ UNCHANGED <<pipeline, log, files>>

NextFidelity == WrappedCall \/ LoadLog \/ GenerateCode

SpecFidelity == InitFidelity /\ [][NextFidelity]_vars

\* ================================================================== claims
Last(s) == s[Len(s)]
Current == heap[df]
Original == heap[df_original]

\* C1: after reset() the current table equals the original table,
\* get_history() returns an empty list, and reset() did not raise.
C1_ResetRestoresAndClears ==
    call.op = "reset" =>
        /\ Current = Original
        /\ get_history(Self).val = <<>>
        /\ ~call.raised

\* C2: in every reachable state the length of the history
\* (get_operation_count) is the number of successful executes since the last
\* reset minus the number of undone steps.
C2_HistoryLengthIsNetExecutes == get_operation_count(Self) = net_executes

\* C3: replay determinism: applying the records of the history in order to
\* a copy of the original table yields the current table.
C3_ReplayDeterminism == Replay(history_list, Original) = Current

\* C4: no step of the pipeline changes the original table stored at
\* construction, in-place column renames and replacements of current included.
C4_OriginalNeverMutated == [][heap'[df_original'] = heap[df_original]]_vars

C4_Witness ==
    /\ call.op = "execute_operation"
    /\ call.name = "standardize_column_names"
    /\ ~call.raised
    /\ Current.columns # Original.columns
    /\ heap["in"].columns # Original.columns

\* C5: a successful execute_operation(op, **params) appends exactly one
\* record at the end of the history and leaves the earlier records as they
\* were, the new record names op and its parameters, current becomes the
\* operation's result on the previous current, and the call returns current.
C5_ExecuteAppendsAndReplaces ==
    [][(call'.op = "execute_operation" /\ ~call'.raised) =>
          /\ call'.name \in avaiable_functions
          /\ Len(history_list') = Len(history_list) + 1
          /\ Front(history_list') = history_list
          /\ Last(history_list').function = call'.name
          /\ Last(history_list').kwargs = call'.kw
          /\ heap'[df'] = CallOp(call'.name, call'.kw, heap[df])
          /\ call'.ret = df']_vars

C5_Witness ==
    /\ call.op = "execute_operation"
    /\ ~call.raised
    /\ Len(history_list) = 2
    /\ history_list[1].function # history_list[2].function
    /\ Current # Original

\* C6: execute_operation with a name outside the registered operations
\* raises and leaves current, original and history as they were.
C6_UnknownOperationRaises ==
    [][(call'.op = "execute_operation" /\ call'.name \notin avaiable_functions) =>
          /\ call'.raised
          /\ heap'[df'] = heap[df]
          /\ heap'[df_original'] = heap[df_original]
          /\ history_list' = history_list
          /\ UNCHANGED <<heap, df, df_original>>]_vars

C6_Witness ==
    /\ call.op = "execute_operation"
    /\ call.name \notin avaiable_functions
    /\ call.raised
    /\ history_list # <<>>
    /\ Current # Original

\* C7: undo law: step_back() on a history r1..rn, n >= 1, leaves the history
\* r1..r(n-1) and makes current the table obtained by executing r1..r(n-1)
\* in order on a fresh copy of the original.
C7_UndoLaw ==
    [][(call'.op = "step_back" /\ history_list # <<>>) =>
          /\ ~call'.raised
          /\ Len(history_list') = Len(history_list) - 1
          /\ history_list' = Front(history_list)
          /\ heap'[df'] = Replay(Front(history_list), heap[df_original])
          /\ heap'[df_original'] = heap[df_original]]_vars

\* a step back from two records whose last one changed the table
C7_Witness ==
    /\ call.op = "step_back"
    /\ ~call.raised
    /\ Len(history_list) = 1
    /\ Current # Original
    /\ \E c \in LibraryCalls : CallOp(c[1], c[2], Current) # Current

\* C8: step_back() on an empty history raises, leaves current, original and
\* history as they were, and every later execute still works.
C8_StepBackOnEmptyHistory ==
    [][(call'.op = "step_back" /\ history_list = <<>>) =>
          /\ call'.raised
          /\ UNCHANGED <<heap, df, df_original, history_list>>
          /\ \A c \in LibraryCalls :
                LET r == execute_operation(Self', c[1], c[2])
                IN  /\ ~r.raised
                    /\ Len(r.self.history_list) = 1
                    /\ r.self.heap[r.self.df] = CallOp(c[1], c[2], heap[df])]_vars

C8_Witness ==
    /\ call.op = "step_back"
    /\ call.raised
    /\ history_list = <<>>

\* C9: whatever a caller does to the list get_history() returned (append,
\* remove, alter), the pipeline's own history stays as the executes left it.
C9_GetHistoryIsACopy ==
    [][call'.op = "caller_mutation" => history_list' = history_list]_vars

C9_Witness ==
    /\ call.op = "caller_mutation"
    /\ caller_list.held
    /\ history_list # <<>>
    /\ CallerView # history_list
    /\ get_history(Self).val = history_list

\* C10: run_pipeline(records) applies the records before the first failing
\* one, in order, applies nothing after it, and raises iff a record failed:
\* the history gains exactly the applied records and current is the result
\* of applying them to the previous current.
Fails(rec) ==
    \/ rec.function \notin avaiable_functions
    \/ CallRaises(rec.function, rec.kwargs)

AppliedPrefix(records) ==
    LET bad == {i \in 1..Len(records) : Fails(records[i])}
        k   == IF bad = {} THEN Len(records) + 1
               ELSE CHOOSE i \in bad : \A j \in bad : i <= j
    IN  SubSeq(records, 1, k - 1)

C10_RunPipelineStopsAtFirstFailure ==
    [][call'.op = "run_pipeline" =>
          LET p == AppliedPrefix(call'.records)
              n == Len(history_list)
          IN  /\ Len(history_list') = n + Len(p)
              /\ SubSeq(history_list', 1, n) = history_list
              /\ \A i \in 1..Len(p) :
                    /\ history_list'[n + i].function = p[i].function
                    /\ history_list'[n + i].kwargs = p[i].kwargs
              /\ heap'[df'] = Replay(p, heap[df])
              /\ call'.raised <=> Len(p) < Len(call'.records)]_vars

\* a run whose first record was applied and whose second record failed
C10_Witness ==
    /\ call.op = "run_pipeline"
    /\ call.raised
    /\ Len(call.records) = 2
    /\ Len(AppliedPrefix(call.records)) = 1
    /\ history_list # <<>>
    /\ Last(history_list).function = call.records[1].function
    /\ Current # Original

\* C11: when the wrapped operation raises, the call of the wrapper raises
\* and the log is left exactly as it was, whatever calls came before.
C11_FailedCallIsNotLogged ==
    [][(call'.op = "wrapper" /\ CallRaises(call'.name, call'.kw)) =>
          /\ call'.raised
          /\ log' = log]_vars

\* a failed call after a logged one
C11_Witness ==
    /\ call.op = "wrapper"
    /\ call.raised
    /\ log.supplied
    /\ Len(log.val) = 1
    /\ log.val[1].function # call.name

C12_WitnessNoLog ==
    /\ call.op = "wrapper"
    /\ ~call.raised
    /\ call.ret # call.records[1]
    /\ ~log.supplied

\* C13: every operation method of the facade returns the facade it was
\* called on and appends exactly one record to the pipeline history, and
\* get_df() afterwards is the pipeline's current table; so a chain of k
\* calls lengthens the history by exactly k.
C13_FacadeMethodsChain ==
    [][call'.op = "Janitor" =>
          /\ ~call'.raised
          /\ call'.ret = "self"
          /\ Len(history_list') = Len(history_list) + 1
          /\ Front(history_list') = history_list
          /\ get_df(Self') = heap'[df']]_vars

\* C14: a function of the operation library has no side effect: after a
\* successful call on the caller's table that table has the columns and the
\* cells it had before the call, and the result is another table object.
C14_LibraryHasNoSideEffects ==
    [][(call'.op = "execute_operation" /\ ~call'.raised /\ df = "in") =>
          /\ heap'["in"].columns = heap["in"].columns
          /\ heap'["in"].data = heap["in"].data
          /\ df' # "in"]_vars

\* C15: round trip: loading the file save_pipeline(H, path) wrote yields a
\* sequence equal to H: same length, same order, and the same function,
\* args and kwargs in every record.
C15_SaveLoadRoundTrip ==
    [][(call'.op = "load_pipeline" /\ call.op = "save_pipeline" /\ ~call.raised) =>
          /\ ~call'.raised
          /\ call'.ret.kind = "list"
          /\ call'.ret.val = call.records]_vars

\* C16: save_pipeline with a path that does not end in .json raises and
\* leaves the files as they were: no file is created at the path and a file
\* that was there keeps its content; with a .json path it writes the whole
\* history and returns True.
C16_SaveFailsFullyOrWritesAll ==
    [][call'.op = "save_pipeline" =>
          IF endswith_json(call'.name)
          THEN /\ ~call'.raised
               /\ call'.ret.kind = "True"
               /\ files'[call'.name].written
               /\ json_load(files'[call'.name].doc) = call'.records
               /\ \A p \in Paths \ {call'.name} : files'[p] = files[p]
          ELSE /\ call'.raised
               /\ files' = files]_vars

\* C17: generate_code() raises the empty-history error and produces no code
\* whenever no non-empty history is loaded: on a generator that never
\* loaded a history and after load_history([]).
C17_EmptyHistoryRaises ==
    (call.op = "generate_code" /\ (~generator.history.set \/ generator.history.val = <<>>))
        => /\ call.raised
           /\ call.name = "No history available to generate code."
           /\ call.ret = <<>>

\* generate_code() after load_history([])
C17_Witness ==
    /\ call.op = "generate_code"
    /\ call.raised
    /\ generator.history.set
    /\ generator.history.val = <<>>

\* generate_code() on a generator that never loaded a history
C17_WitnessFresh ==
    /\ call.op = "generate_code"
    /\ call.raised
    /\ ~generator.history.set

C20_RStageKeepsTheSameColumns ==
    call.op = "select_if" =>
        LET t == call.records[1]
            p == IF "threshold" \in call.kw.keys THEN call.kw.threshold
                 ELSE DefaultThreshold
        IN  /\ call.ret.na_threshold = 100 - p
            /\ call.records[2].columns =
                  PickFrom(t.columns,
                           {i \in 1..NCols(t) :
                               NonNullCount(t.data[i]) >= (p * t.nrows) \div 100}, 1)
            /\ call.records[3].columns = call.records[2].columns

ThresholdOf(kw) == IF "threshold" \in kw.keys THEN kw.threshold ELSE DefaultThreshold

\* The columns of a table as <<name, cells>> pairs, in order
ColumnsOf(t) == [i \in 1..NCols(t) |-> <<t.columns[i], t.data[i]>>]

\* C22: for every threshold in [0,1] and every table, remove_empty_cols
\* removes no column without a null cell, and for a threshold above 0 it
\* removes every column whose cells are all null.
C22_FullColumnsStayEmptyColumnsGo ==
    (call.op = "library" /\ call.name = "remove_empty_cols") =>
        LET t == call.records[1]
            p == ThresholdOf(call.kw)
        IN  /\ ~call.raised
            /\ \A i \in 1..NCols(t) :
                  /\ NonNullCount(t.data[i]) = t.nrows
                        => InSeq(ColumnsOf(t)[i], ColumnsOf(call.ret))
                  /\ (p > 0 /\ t.nrows > 0 /\ NonNullCount(t.data[i]) = 0)
                        => ~InSeq(ColumnsOf(t)[i], ColumnsOf(call.ret))


RowsOf(t) == [r \in 1..t.nrows |-> [i \in 1..NCols(t) |-> t.data[i][r]]]

\* C24: remove_empty_rows returns at most as many rows as it was given, every
\* row it returns has a non-null cell, and the rows it returns are the rows
\* of the input that have a non-null cell, in the original order; the columns
\* are unchanged.
C24_RemoveEmptyRowsKeepsPopulatedRows ==
    (call.op = "library" /\ call.name = "remove_empty_rows") =>
        LET t    == call.records[1]
            some == {r \in 1..t.nrows : \E i \in 1..NCols(t) : ~IsNull(t.data[i][r])}
        IN  /\ ~call.raised
            /\ call.ret.nrows <= t.nrows
            /\ \A r \in 1..call.ret.nrows :
                  \E i \in 1..NCols(call.ret) : ~IsNull(call.ret.data[i][r])
            /\ RowsOf(call.ret) = PickFrom(RowsOf(t), some, 1)
            /\ call.ret.columns = t.columns
            /\ \A i \in 1..NCols(call.ret) : Len(call.ret.data[i]) = call.ret.nrows

\* a row with a null cell and a populated cell stays, an all-null row goes
C24_Witness ==
    /\ call.op = "library" /\ call.name = "remove_empty_rows"
    /\ call.ret.nrows = 1 /\ call.records[1].nrows = 2
    /\ \E i \in 1..NCols(call.ret) : IsNull(call.ret.data[i][1])


UpperOrSpace == {"A", "E", "E^", "O/", "sp"}

\* C25: standardize_column_names is idempotent: a second application to the
\* table it returned changes neither the column names nor the cells, and
\* after one application no column name holds an uppercase letter or a space.
C25_StandardizeColumnNamesIdempotent ==
    (call.op = "library" /\ call.name = "standardize_column_names" /\ ~call.raised) =>
        /\ standardize_column_names(call.ret) = call.ret
        /\ \A i \in 1..NCols(call.ret) :
              \A k \in 1..Len(call.ret.columns[i]) :
                  call.ret.columns[i][k] \notin UpperOrSpace
        /\ call.ret.data = call.records[1].data

\* a name with an uppercase accented letter and a space was rewritten
C25_Witness ==
    /\ call.op = "library" /\ call.name = "standardize_column_names"
    /\ ~call.raised
    /\ InSeq(<<"E^", "sp">>, call.records[1].columns)
    /\ InSeq(<<"e^", "_">>, call.ret.columns)


\* C26: a registered operation given a table with no rows, no columns or a
\* single row returns a table and does not raise, and the call is recorded
\* (one entry appended to the history list the recorder writes to).
C26_OperationsSafeOnEmptyAndSingleRow ==
    (call.op = "library"
        /\ (call.records[1].nrows <= 1 \/ NCols(call.records[1]) = 0)) =>
        /\ ~call.raised
        /\ Len(log.val) = 1
        /\ Len(call.ret.columns) = Len(call.ret.data)


C30_ColumnNameOperationsChangeNamesOnly ==
    (call.op = "library" /\ ~call.raised
        /\ call.name \in {"standardize_column_names", "normalize_column_names"}) =>
        /\ NCols(call.ret) = NCols(call.records[1])
        /\ call.ret.nrows = call.records[1].nrows
        /\ call.ret.data = call.records[1].data

\* two distinct names became one name and both columns are still there
C30_Witness ==
    /\ call.op = "library" /\ call.name = "standardize_column_names"
    /\ ~call.raised
    /\ NCols(call.ret) = 2
    /\ call.records[1].columns[1] # call.records[1].columns[2]
    /\ call.ret.columns[1] = call.ret.columns[2]
    /\ call.ret.data[1] # call.ret.data[2]


\* C29: with a loaded history that is not empty, whatever the language,
\* generate_code raises or returns a script that is not empty and has one
\* stage for each record, and export_code raises or leaves the output file
\* written with that script.
C29_GenerateRaisesOrYieldsScript ==
    (generator.history.set /\ generator.history.val # <<>>) =>
        /\ call.op = "generate_code" =>
              \/ call.raised
              \/ /\ call.ret # <<>>
                 /\ Len(call.ret) = Len(generator.history.val)
        /\ call.op = "export_code" =>
              \/ call.raised
              \/ /\ files[call.name].written
                 /\ files[call.name].doc = generate_code(generator).code
                 /\ files[call.name].doc # <<>>


\* C28: for the records the recorder appended (keyword arguments that are
\* literals), load_history followed by generate_code succeeds, the function
\* name extracted for an entry is the name of the executed operation and the
\* parameter mapping parsed for it equals the recorded keyword arguments.
C28_RecorderToGeneratorFidelity ==
    (generator.history.set /\ generator.history.val # <<>>) =>
        /\ \A i \in 1..Len(generator.history.val) :
              /\ generator.history.val[i].func = log.val[i].function
              /\ IsDictLiteral(generator.history.val[i].params)
              /\ literal_eval(generator.history.val[i].params)
                    = KwDict(log.val[i].kwargs)
        /\ call.op = "generate_code" => ~call.raised

====
